---- MODULE Spec2Model ----
(***************************************************************************)
(* Model of sok-downloader.py: the Client class (login, get_playlist,      *)
(* get_video) and the download loop of main().                             *)
(*                                                                         *)
(* Strings that the code takes apart (video titles, file names) are        *)
(* sequences of one-character strings.  Paths follow POSIX os.path, where  *)
(* "/" is the only separator.  The output directory is taken to exist.     *)
(* The server and the disk are the environment: every reply is chosen      *)
(* nondeterministically where the request is made.                         *)
(***************************************************************************)
EXTENDS Integers, Sequences, FiniteSets, TLC

\* ------------------------------------------------------------------ bounds
MaxConfs == 2
MaxVideos == 2
MaxTitleLen == 3

\* --------------------------------------------------------------- constants
ConferenceIds ==
  [n \in {"DEFCON24", "DEFCON25", "DEFCON26", "DEFCON27", "DEFCON27-VILLAGE",
          "DEFCON26-VILLAGE", "BSidesLV2016", "BlackHatUSA2017",
          "BlackHatUSA2018", "BlackHatUSA2019"} |->
     CASE n = "DEFCON24" -> 32
       [] n = "DEFCON25" -> 41
       [] n = "DEFCON26" -> 54
       [] n = "DEFCON27" -> 71
       [] n = "DEFCON27-VILLAGE" -> 72
       [] n = "DEFCON26-VILLAGE" -> 67
       [] n = "BSidesLV2016" -> 39
       [] n = "BlackHatUSA2017" -> 40
       [] n = "BlackHatUSA2018" -> 53
       [] n = "BlackHatUSA2019" -> 70]

AllowedChoices == DOMAIN ConferenceIds

RetryRange_four == 3 + 1

\* range(3) of the retry loop
RetryRange == 3

\* default of --delay
DefaultDelay == 5

\* ------------------------------------------------------- environment sets
\* names a caller may type on the command line (one is not in the catalog)
ArgNames == {"DEFCON24", "BOGUS"}
Delays == {0, DefaultDelay}
StatusCodes == {200, 500}
\* a reply is a response with a status code, or the request raises
Replies == {[raises |-> FALSE, status_code |-> s] : s \in StatusCodes}
           \cup {[raises |-> TRUE, status_code |-> 0]}
\* redirect history of the login POST: one cookie jar per redirect response
Histories == {<<>>, <<{"SESS"}>>, <<{"SESS"}, {}>>}
WriteResults == {"complete", "midstream_error"}
Alphabet == {"/", "a"}

SeqsUpTo(S, n) == UNION {[1..k -> S] : k \in 0..n}
Titles == SeqsUpTo(Alphabet, MaxTitleLen)

\* playlist entries the server may list
Entries == {[sess_id |-> 1, sess_data |-> [session_name |-> <<"a">>]],
            [sess_id |-> 2, sess_data |-> [session_name |-> <<"/", "a">>]],
            [sess_id |-> 3, sess_data |-> [session_name |-> <<"b">>]]}
\* a playlist lists a session once
Payloads ==
  {[data |-> d] : d \in {q \in SeqsUpTo(Entries, MaxVideos) :
                           \A i, j \in 1..Len(q) : q[i] = q[j] => i = j}}

\* ------------------------------------------------------------------ values
None == [none |-> TRUE, val |-> <<>>]
Some(v) == [none |-> FALSE, val |-> <<v>>]
Get(o) == o.val[1]

NoVideo == [id |-> 0, name |-> <<>>]
NoClient == [cookies |-> None, directory |-> "", delay |-> 0, debug |-> FALSE]
NoPath == [dir |-> "", rel |-> <<>>]
\* the answers the environment gave during a call (those the call asked for)
NoEnv == [root |-> [raises |-> FALSE, status_code |-> 200], container |-> FALSE,
          post |-> [raises |-> FALSE, status_code |-> 200], history |-> <<>>,
          resp |-> [raises |-> FALSE, status_code |-> 200],
          res |-> [raises |-> FALSE, status_code |-> 200],
          strm |-> [raises |-> FALSE, status_code |-> 200], wr |-> "complete"]
NoCall == [op |-> "", outcome |-> "", raised |-> FALSE, path |-> NoPath,
           opened |-> {}, env |-> NoEnv]

\* ------------------------------------------------------------------- state
VARIABLES
  args,        \* parsed command line: conferences, delay, debug
  pc,          \* position of main
  ci,          \* index of the conference being processed
  cli,         \* the Client of the current conference
  videos,      \* result of get_playlist (None or a list)
  vi,          \* index of the video being processed
  video,       \* the video being processed
  retries,     \* loop variable of the retry loop
  dirs,        \* conference directories that exist
  files,       \* files on disk: records dir, rel, st
  exc,         \* uncaught exception that ended main ("" if none)
  reqs,        \* HTTP requests issued by the last step
  tries,       \* outcomes of the get_video calls made for the current video
  sleeps,      \* time.sleep calls since the last get_video call
  lastAttempt, \* <<ci, vi>> of the last get_video call
  last,        \* the last Client call made by a direct caller
  body,        \* decoded body of the last playlist reply that was a 200
  logins,      \* login calls main made on the current Client
  count        \* totals of the run: get_video calls, videos of the playlists

vars == <<args, pc, ci, cli, videos, vi, video, retries, dirs, files, exc,
          reqs, tries, sleeps, lastAttempt, last, body, logins, count>>

\* -------------------------------------------------------------- filesystem
MP4 == <<".", "m", "p", "4">>

\* str.replace("/", "", 1)
replace_slash_once(s) ==
  IF \E i \in 1..Len(s) : s[i] = "/"
  THEN LET k == CHOOSE i \in 1..Len(s) : s[i] = "/" /\ \A j \in 1..(i - 1) : s[j] # "/"
       IN SubSeq(s, 1, k - 1) \o SubSeq(s, k + 1, Len(s))
  ELSE s

RECURSIVE replace_slash(_)
\* str.replace("/", "")
replace_slash(s) ==
  IF s = <<>> THEN <<>>
  ELSE IF Head(s) = "/" THEN replace_slash(Tail(s))
  ELSE <<Head(s)>> \o replace_slash(Tail(s))

video_filename(name) == replace_slash(name) \o MP4

\* os.path.join(directory, filename): an absolute second part discards the first
path_join(directory, fname) ==
  IF fname # <<>> /\ Head(fname) = "/"
  THEN [dir |-> "/", rel |-> Tail(fname)]
  ELSE [dir |-> directory, rel |-> fname]

path_exists_never(fs, p) == FALSE

\* os.path.exists
path_exists(fs, p) == \E f \in fs : f.dir = p.dir /\ f.rel = p.rel

\* open(p, 'wb') followed by the chunk writes
write_file(fs, p, st) ==
  {f \in fs : ~(f.dir = p.dir /\ f.rel = p.rel)}
  \cup {[dir |-> p.dir, rel |-> p.rel, st |-> st]}

PlaylistJson == <<"playlist.json">>

\* ------------------------------------------------------------------ Client
failed_never(resp) == FALSE

failed(resp) == IF resp.status_code # 200 THEN TRUE ELSE FALSE

Client(directory, delay, debug) ==
  [cookies |-> None, directory |-> directory, delay |-> delay, debug |-> debug]

must_login_unchecked(self) == FALSE

\* if self._cookies is None: raise ValueError("Must login 1st")
must_login(self) == self.cookies = None

redirect_cookies_last(history) == history[Len(history)]

\* r.history[0].cookies
redirect_cookies(history) == history[1]

\* Client.login: root is the reply to GET BASE_URL, container tells whether
\* the page has the page_container element, post is the reply to the POST
\* and history its redirect history.
login(self, root, container, post, history) ==
  IF root.raises
  THEN [raised |-> TRUE, exc |-> "RequestException", cookies |-> self.cookies,
        reqs |-> <<"GET_root">>]
  ELSE IF failed(root)
  THEN [raised |-> TRUE, exc |-> "ValueError: Failed connection",
        cookies |-> self.cookies, reqs |-> <<"GET_root">>]
  ELSE IF ~container
  THEN [raised |-> TRUE, exc |-> "AttributeError", cookies |-> self.cookies,
        reqs |-> <<"GET_root">>]
  ELSE IF post.raises
  THEN [raised |-> TRUE, exc |-> "RequestException", cookies |-> self.cookies,
        reqs |-> <<"GET_root", "POST_login">>]
  ELSE IF Len(history) # 0
  THEN [raised |-> FALSE, exc |-> "", cookies |-> Some(redirect_cookies(history)),
        reqs |-> <<"GET_root", "POST_login">>]
  ELSE [raised |-> TRUE, exc |-> "ValueError: Unable to login",
        cookies |-> self.cookies, reqs |-> <<"GET_root", "POST_login">>]

\* Client.get_video: res is the reply of the resolution endpoint, strm the
\* reply of the signed URL, wr what happens while the body is written.
get_video(self, fs, v, res, strm, wr) ==
  LET fname == video_filename(v.name)
      dl_path == path_join(self.directory, fname)
      R(outcome, raised, ret, fs2, rq) ==
        [outcome |-> outcome, raised |-> raised, ret |-> ret, files |-> fs2,
         reqs |-> rq,
         path |-> IF outcome = "must_login" THEN NoPath ELSE dl_path,
         opened |-> IF fs2 = fs THEN {} ELSE {dl_path}]
  IN
  IF must_login(self)
  THEN R("must_login", TRUE, None, fs, <<>>)
  ELSE IF path_exists(fs, dl_path)
  THEN R("skipped", FALSE, None, fs, <<>>)
  ELSE IF res.raises
  THEN R("resolution_raised", TRUE, None, fs, <<"GET_video">>)
  ELSE IF failed(res)
  THEN R("resolution_failed", FALSE, None, fs, <<"GET_video">>)
  ELSE IF strm.raises
  THEN R("stream_raised", TRUE, None, fs, <<"GET_video", "GET_stream">>)
  ELSE IF failed(strm)
  THEN R("stream_failed", FALSE, None, fs, <<"GET_video", "GET_stream">>)
  ELSE IF wr = "midstream_error"
  THEN R("write_raised", TRUE, None, write_file(fs, dl_path, "partial"),
         <<"GET_video", "GET_stream">>)
  ELSE R("downloaded", FALSE, Some(dl_path),
         write_file(fs, dl_path, "complete"), <<"GET_video", "GET_stream">>)

\* Client._make_vid
make_vid(d) == [id |-> d.sess_id, name |-> d.sess_data.session_name]

make_vids_reversed(data) ==
  [i \in 1..Len(data) |-> make_vid(data[Len(data) + 1 - i])]

\* [self._make_vid(d) for d in content['data']]
make_vids(data) == [i \in 1..Len(data) |-> make_vid(data[i])]

\* Client.get_playlist: resp is the reply of the playlist endpoint and
\* content its decoded body.
get_playlist(self, fs, conference, resp, content) ==
  LET dump == path_join(self.directory, PlaylistJson)
      R(outcome, raised, ret, fs2) ==
        [outcome |-> outcome, raised |-> raised, ret |-> ret, files |-> fs2,
         reqs |-> IF outcome = "must_login" THEN <<>> ELSE <<"GET_playlist">>,
         opened |-> IF outcome = "playlist" /\ self.debug THEN {dump} ELSE {}]
  IN
  IF must_login(self)
  THEN R("must_login", TRUE, None, fs)
  ELSE IF resp.raises
  THEN R("playlist_raised", TRUE, None, fs)
  ELSE IF failed(resp)
  THEN R("playlist_failed", FALSE, None, fs)
  ELSE R("playlist", FALSE,
         Some(make_vids(content.data)),
         IF self.debug THEN write_file(fs, dump, "complete") ELSE fs)

\* ------------------------------------------------------------ environment
\* What the server and the disk answer during one call.  A reply the call
\* never looks at (because an earlier one already ended it) is fixed, so
\* that the same run is not enumerated twice.
Ok200 == [raises |-> FALSE, status_code |-> 200]

LoginInputs(H) ==
  {e \in [root : Replies, container : BOOLEAN, post : Replies, history : H] :
     /\ failed(e.root) => ~e.container
     /\ ~e.container => e.post = Ok200
     /\ (~e.container \/ e.post.raises) => e.history = <<>>}

PlaylistInputs(P) ==
  {e \in [resp : Replies, content : P] :
     failed(e.resp) => e.content = [data |-> <<>>]}

VideoInputs ==
  {e \in [res : Replies, strm : Replies, wr : WriteResults] :
     /\ failed(e.res) => e.strm = Ok200
     /\ failed(e.strm) => e.wr = "complete"}

\* -------------------------------------------------------------------- main
ArgLists == SeqsUpTo(ArgNames, MaxConfs) \ {<<>>}

\* files a previous run may have left behind
OldFiles == {[dir |-> "DEFCON24", rel |-> video_filename(<<"a">>), st |-> "old"]}

\* the totals of a run are kept only where they are asked for, so that
\* elsewhere runs that differ in nothing else are one state
NoCount == [attempts |-> 0 - 1, fetched |-> 0 - 1]
ZeroCount == [attempts |-> 0, fetched |-> 0]
Counted(c, a, f) ==
  IF c = NoCount
  THEN c
  ELSE [attempts |-> c.attempts + a, fetched |-> c.fetched + f]

InitRun ==
  /\ args \in [conferences : ArgLists, delay : Delays, debug : BOOLEAN]
  /\ pc = "parse_args"
  /\ ci = 0
  /\ cli = NoClient
  /\ videos = None
  /\ vi = 0
  /\ video = NoVideo
  /\ retries = 0
  /\ files \in SUBSET OldFiles
  /\ dirs = {f.dir : f \in files}
  /\ exc = ""
  /\ reqs = <<>>
  /\ tries = <<>>
  /\ sleeps = 0
  /\ lastAttempt = <<0, 0>>
  /\ last = NoCall
  /\ body = [data |-> <<>>]
  /\ logins = 0

Init == InitRun /\ count = NoCount

valid_args_first(a) == a.conferences[1] \in AllowedChoices

\* argparse: every conference name must be one of AllowedChoices
valid_args(a) == \A i \in 1..Len(a.conferences) : a.conferences[i] \in AllowedChoices

\* parser.parse_args(): exits before the loop on a name outside the choices
ParseArgs ==
  /\ pc = "parse_args"
  /\ IF valid_args(args)
     THEN pc' = "for_conference" /\ exc' = exc
     ELSE pc' = "exited" /\ exc' = "SystemExit: invalid choice"
  /\ reqs' = <<>>
  /\ UNCHANGED <<args, ci, cli, videos, vi, video, retries, dirs, files,
                 tries, sleeps, lastAttempt, last, body, logins, count>>

\* for conference_name in args.conferences: mkdir and Client(...)
StartConference ==
  /\ pc = "for_conference"
  /\ ci < Len(args.conferences)
  /\ ci' = ci + 1
  /\ LET conference_dir == args.conferences[ci + 1]
     IN /\ dirs' = dirs \cup {conference_dir}
        /\ cli' = Client(conference_dir, args.delay, args.debug)
  /\ logins' = 0
  /\ pc' = "login"
  /\ reqs' = <<>>
  /\ UNCHANGED <<args, videos, vi, video, retries, files, exc, tries, sleeps,
                 lastAttempt, last, body, count>>

\* the for loop over the conferences is exhausted: main returns
Finish ==
  /\ pc = "for_conference"
  /\ ci = Len(args.conferences)
  /\ pc' = "exited"
  /\ reqs' = <<>>
  /\ UNCHANGED <<args, ci, cli, videos, vi, video, retries, dirs, files, exc,
                 tries, sleeps, lastAttempt, last, body, logins, count>>

\* cli.login() whose failure is ignored: main goes on to the playlist
Login_ignored ==
  /\ pc = "login"
  /\ \E e \in LoginInputs(Histories) :
       LET r == login(cli, e.root, e.container, e.post, e.history)
       IN /\ cli' = [cli EXCEPT !.cookies = r.cookies]
          /\ reqs' = r.reqs
  /\ pc' = "get_playlist"
  /\ logins' = logins + 1
  /\ UNCHANGED <<args, ci, videos, vi, video, retries, dirs, files, exc, tries,
                 sleeps, lastAttempt, last, body, count>>

\* cli.login() inside a try/except that goes on with the next conference
Login_caught ==
  /\ pc = "login"
  /\ \E e \in LoginInputs(Histories) :
       LET r == login(cli, e.root, e.container, e.post, e.history)
       IN /\ cli' = [cli EXCEPT !.cookies = r.cookies]
          /\ reqs' = r.reqs
          /\ pc' = IF r.raised THEN "for_conference" ELSE "get_playlist"
  /\ logins' = logins + 1
  /\ UNCHANGED <<args, ci, videos, vi, video, retries, dirs, files, exc, tries,
                 sleeps, lastAttempt, last, body, count>>

\* cli.login(): an exception is not caught by main
Login ==
  /\ pc = "login"
  /\ \E e \in LoginInputs(Histories) :
       LET r == login(cli, e.root, e.container, e.post, e.history)
       IN /\ cli' = [cli EXCEPT !.cookies = r.cookies]
          /\ reqs' = r.reqs
          /\ IF r.raised
             THEN pc' = "exited" /\ exc' = r.exc
             ELSE pc' = "get_playlist" /\ exc' = exc
  /\ logins' = logins + 1
  /\ UNCHANGED <<args, ci, videos, vi, video, retries, dirs, files, tries,
                 sleeps, lastAttempt, last, body, count>>

\* videos = cli.get_playlist(c)
FetchPlaylist ==
  /\ pc = "get_playlist"
  /\ \E e \in PlaylistInputs(Payloads) :
       LET c == [id |-> ConferenceIds[args.conferences[ci]],
                 name |-> args.conferences[ci]]
           r == get_playlist(cli, files, c, e.resp, e.content)
       IN /\ files' = r.files
          /\ reqs' = r.reqs
          /\ body' = IF r.outcome = "playlist" THEN e.content ELSE body
          /\ IF r.raised
             THEN pc' = "exited" /\ exc' = "RequestException" /\ videos' = videos
             ELSE pc' = "for_video" /\ exc' = exc /\ videos' = r.ret
  /\ vi' = 0
  /\ video' = NoVideo
  /\ tries' = <<>>
  /\ count' = IF pc' = "for_video" /\ videos' # None
              THEN Counted(count, 0, Len(Get(videos')))
              ELSE count
  /\ UNCHANGED <<args, ci, cli, retries, dirs, sleeps, lastAttempt, last, logins>>

\* for video in reversed(videos)
NextVideo_reversed ==
  /\ pc = "for_video"
  /\ reqs' = <<>>
  /\ IF videos = None
     THEN /\ pc' = "exited"
          /\ exc' = "TypeError: 'NoneType' object is not iterable"
          /\ UNCHANGED <<vi, video, retries, tries>>
     ELSE IF vi # 1 /\ Len(Get(videos)) > 0
     THEN /\ vi' = IF vi = 0 THEN Len(Get(videos)) ELSE vi - 1
          /\ video' = Get(videos)[vi']
          /\ retries' = 0
          /\ tries' = <<>>
          /\ pc' = "try"
          /\ exc' = exc
     ELSE /\ pc' = "conference_done"
          /\ UNCHANGED <<vi, video, retries, tries, exc>>
  /\ UNCHANGED <<args, ci, cli, videos, dirs, files, sleeps, lastAttempt,
                 last, body, logins, count>>

\* for video in videos: iterating None raises TypeError
NextVideo ==
  /\ pc = "for_video"
  /\ reqs' = <<>>
  /\ IF videos = None
     THEN /\ pc' = "exited"
          /\ exc' = "TypeError: 'NoneType' object is not iterable"
          /\ UNCHANGED <<vi, video, retries, tries>>
     ELSE IF vi < Len(Get(videos))
     THEN /\ vi' = vi + 1
          /\ video' = Get(videos)[vi + 1]
          /\ retries' = 0
          /\ tries' = <<>>
          /\ pc' = "try"
          /\ exc' = exc
     ELSE /\ pc' = "conference_done"
          /\ UNCHANGED <<vi, video, retries, tries, exc>>
  /\ UNCHANGED <<args, ci, cli, videos, dirs, files, sleeps, lastAttempt,
                 last, body, logins, count>>

\* try: cli.get_video(video); break / except Exception: log
Attempt ==
  /\ pc = "try"
  /\ \E e \in VideoInputs :
       LET r == get_video(cli, files, video, e.res, e.strm, e.wr)
       IN /\ files' = r.files
          /\ reqs' = r.reqs
          /\ tries' = Append(tries, r.outcome)
          /\ pc' = IF r.raised THEN "finally_except" ELSE "finally_break"
  /\ sleeps' = 0
  /\ lastAttempt' = <<ci, vi>>
  /\ count' = Counted(count, 1, 0)
  /\ UNCHANGED <<args, ci, cli, videos, vi, video, retries, dirs, exc, last, body, logins>>

\* the break is missing: a call that returned is retried like one that raised
Finally_no_break ==
  /\ pc \in {"finally_except", "finally_break"}
  /\ sleeps' = IF args.delay > 0 THEN sleeps + 1 ELSE sleeps
  /\ IF retries + 1 < RetryRange
     THEN pc' = "try" /\ retries' = retries + 1
     ELSE pc' = "for_video" /\ retries' = retries
  /\ reqs' = <<>>
  /\ UNCHANGED <<args, ci, cli, videos, vi, video, dirs, files, exc, tries,
                 lastAttempt, last, body, logins, count>>

\* the sleep moved into the except clause
Finally_sleep_in_except ==
  /\ pc \in {"finally_except", "finally_break"}
  /\ sleeps' = IF args.delay > 0 /\ pc = "finally_except" THEN sleeps + 1 ELSE sleeps
  /\ IF pc = "finally_except" /\ retries + 1 < RetryRange
     THEN pc' = "try" /\ retries' = retries + 1
     ELSE pc' = "for_video" /\ retries' = retries
  /\ reqs' = <<>>
  /\ UNCHANGED <<args, ci, cli, videos, vi, video, dirs, files, exc, tries,
                 lastAttempt, last, body, logins, count>>

\* finally: sleep when the delay is positive; then leave the retry loop
\* (break, or range(3) exhausted) or start the next retry
Finally ==
  /\ pc \in {"finally_except", "finally_break"}
  /\ sleeps' = IF args.delay > 0 THEN sleeps + 1 ELSE sleeps
  /\ IF pc = "finally_except" /\ retries + 1 < RetryRange
     THEN pc' = "try" /\ retries' = retries + 1
     ELSE pc' = "for_video" /\ retries' = retries
  /\ reqs' = <<>>
  /\ UNCHANGED <<args, ci, cli, videos, vi, video, dirs, files, exc, tries,
                 lastAttempt, last, body, logins, count>>

\* logger.info("Done downloading for conference")
ConferenceDone ==
  /\ pc = "conference_done"
  /\ pc' = "for_conference"
  /\ reqs' = <<>>
  /\ UNCHANGED <<args, ci, cli, videos, vi, video, retries, dirs, files, exc,
                 tries, sleeps, lastAttempt, last, body, logins, count>>

Next ==
  \/ ParseArgs
  \/ StartConference
  \/ Finish
  \/ Login
  \/ FetchPlaylist
  \/ NextVideo
  \/ Attempt
  \/ Finally
  \/ ConferenceDone

Spec == Init /\ [][Next]_vars

\* main with the totals of the run kept, every call and sleep returning
InitTotals == InitRun /\ count = ZeroCount
SpecTotals == InitTotals /\ [][Next]_vars /\ WF_vars(Next)

\* ------------------------------------------------- the Client used directly
\* A caller other than main: one Client, its three methods called in any
\* order, get_video always for the same video.
ClientHistories == Histories \cup {<<{}>>}
ClientVideos == {[id |-> 1, name |-> t] : t \in Titles}
ClientPayloads == {p \in Payloads : Len(p.data) <= 1}

InitClient ==
  /\ args = [conferences |-> <<"DEFCON24">>, delay |-> DefaultDelay, debug |-> FALSE]
  /\ pc = "client"
  /\ ci = 1
  /\ \E debug \in BOOLEAN : cli = Client("DEFCON24", DefaultDelay, debug)
  /\ videos = None
  /\ vi = 0
  /\ video \in ClientVideos
  /\ retries = 0
  /\ dirs = {"DEFCON24"}
  /\ files \in SUBSET {[dir |-> "DEFCON24", rel |-> video_filename(video.name),
                        st |-> "old"]}
  /\ exc = ""
  /\ reqs = <<>>
  /\ tries = <<>>
  /\ sleeps = 0
  /\ lastAttempt = <<0, 0>>
  /\ last = NoCall
  /\ body = [data |-> <<>>]
  /\ logins = 0
  /\ count = NoCount

Called(op, r, env) ==
  [op |-> op, outcome |-> r.outcome, raised |-> r.raised, path |-> r.path,
   opened |-> r.opened, env |-> env]

\* cli.login()
CallLogin ==
  /\ pc = "client"
  /\ \E e \in LoginInputs(ClientHistories) :
       LET r == login(cli, e.root, e.container, e.post, e.history)
       IN /\ cli' = [cli EXCEPT !.cookies = r.cookies]
          /\ reqs' = r.reqs
          /\ last' = [op |-> "login",
                      outcome |-> IF r.raised THEN r.exc ELSE "logged_in",
                      raised |-> r.raised, path |-> NoPath, opened |-> {},
                      env |-> [NoEnv EXCEPT !.root = e.root,
                                            !.container = e.container,
                                            !.post = e.post,
                                            !.history = e.history]]
  /\ UNCHANGED <<args, pc, ci, videos, vi, video, retries, dirs, files, exc,
                 tries, sleeps, lastAttempt, body, logins, count>>

\* cli.get_playlist(c)
CallGetPlaylist ==
  /\ pc = "client"
  /\ \E e \in PlaylistInputs(ClientPayloads) :
       LET c == [id |-> ConferenceIds["DEFCON24"], name |-> "DEFCON24"]
           r == get_playlist(cli, files, c, e.resp, e.content)
       IN /\ files' = r.files
          /\ reqs' = r.reqs
          /\ videos' = IF r.raised THEN videos ELSE r.ret
          /\ last' = Called("get_playlist", [r EXCEPT !.ret = None] @@ [path |-> NoPath],
                            [NoEnv EXCEPT !.resp = e.resp])
          /\ body' = IF r.outcome = "playlist" THEN e.content ELSE body
  /\ UNCHANGED <<args, pc, ci, cli, vi, video, retries, dirs, exc, tries,
                 sleeps, lastAttempt, logins, count>>

\* cli.get_video(video)
CallGetVideo ==
  /\ pc = "client"
  /\ \E e \in VideoInputs :
       LET r == get_video(cli, files, video, e.res, e.strm, e.wr)
       IN /\ files' = r.files
          /\ reqs' = r.reqs
          /\ last' = Called("get_video", r,
                            [NoEnv EXCEPT !.res = e.res, !.strm = e.strm, !.wr = e.wr])
  /\ UNCHANGED <<args, pc, ci, cli, videos, vi, video, retries, dirs, exc,
                 tries, sleeps, lastAttempt, body, logins, count>>

NextClient ==
  \/ CallLogin
  \/ CallGetPlaylist
  \/ CallGetVideo

SpecClient == InitClient /\ [][NextClient]_vars

\* ================================================================== claims
InRetryLoop == pc \in {"try", "finally_except", "finally_break"}
InFinally == pc \in {"finally_except", "finally_break"}
Non200Outcomes == {"resolution_failed", "stream_failed"}
RaisedOutcomes == {"resolution_raised", "stream_raised", "write_raised"}
TypeErrorNone == "TypeError: 'NoneType' object is not iterable"
LexLE(a, b) == a[1] < b[1] \/ (a[1] = b[1] /\ a[2] <= b[2])
NotSlash(c) == c # "/"
FilesAt(fs, p) == {f \in fs : f.dir = p.dir /\ f.rel = p.rel}

\* C1: when the retry loop of a video is over and every get_video call made
\* for it ended in a non-200 resolution or stream response, exactly 3 calls
\* were made for it (and main is back at the for loop over the videos).
C1_RetryBound ==
  (pc = "for_video" /\ tries # <<>>
     /\ \A i \in 1..Len(tries) : tries[i] \in Non200Outcomes)
  => Len(tries) = 3

\* C2: while the Client has no cookies (login never called, or called and
\* failed), a call of get_playlist or get_video raises "Must login 1st",
\* issues no request and opens no file.
C2_LoginPrecondition ==
  (pc = "client" /\ cli.cookies = None /\ last.op \in {"get_playlist", "get_video"})
  => /\ last.raised
     /\ last.outcome = "must_login"
     /\ reqs = <<>>
     /\ last.opened = {}
     /\ \A f \in files : f.st = "old"

C2_Witness ==
  /\ pc = "client"
  /\ cli.cookies = None
  /\ last.op = "get_video"
  /\ last.outcome = "must_login"
  /\ files = {}

\* C3: a non-200 reply to the playlist fetch of a conference does not end the
\* run: main exits only without an exception and after the last conference.
C3_PlaylistFailureSkipsConference ==
  (cli.cookies # None /\ videos = None /\ pc = "exited" /\ exc # "RequestException")
  => (exc = "" /\ ci = Len(args.conferences))

\* C4: a login that raises ends the run at once, and once the run has ended
\* no step follows: no login, playlist, resolution or stream request.
C4_LoginFailureAbortsRun ==
  [][/\ pc # "exited"
     /\ (pc = "login" /\ cli'.cookies = None) => (pc' = "exited" /\ exc' # "")]_vars

C4_Witness ==
  /\ pc = "exited"
  /\ exc \in {"ValueError: Failed connection", "ValueError: Unable to login"}
  /\ ci = 1
  /\ Len(args.conferences) = 2

\* C5 (as stated): a get_video call that follows a get_video call on a
\* logged-in Client is skipped, issues no request, writes nothing and leaves
\* exactly one file at the destination path.
C5_IdempotentAlways ==
  [][(pc = "client" /\ last.op = "get_video" /\ last.outcome # "must_login"
        /\ last'.op = "get_video")
     => /\ last'.outcome = "skipped"
        /\ reqs' = <<>>
        /\ last'.opened = {}
        /\ files' = files
        /\ Cardinality(FilesAt(files', last'.path)) = 1]_vars

\* C5 (amended): when the first call left a file at the destination path
\* (downloaded, skipped, or broken off mid-stream), the second call is
\* skipped, issues no request, writes nothing and exactly one file is at the
\* path; when the first call failed before the file was opened, no file is
\* at the path and the second call is not skipped.
C5_IdempotentAfterFile ==
  [][(pc = "client" /\ last.op = "get_video" /\ last.outcome # "must_login"
        /\ last'.op = "get_video")
     => IF last.outcome \in {"downloaded", "skipped", "write_raised"}
        THEN /\ last'.outcome = "skipped"
             /\ reqs' = <<>>
             /\ last'.opened = {}
             /\ files' = files
             /\ Cardinality(FilesAt(files', last'.path)) = 1
        ELSE /\ FilesAt(files, last.path) = {}
             /\ last'.outcome # "skipped"
             /\ reqs' # <<>>]_vars

C5_Witness ==
  /\ pc = "client"
  /\ last.op = "get_video"
  /\ last.outcome = "skipped"
  /\ \E f \in FilesAt(files, last.path) : f.st = "complete"

\* C6: get_video calls happen in the order of the conference list and,
\* within a conference, in playlist order, all calls for one video before the
\* first call for the next; the video tried is the one at that position.
C6_Ordering ==
  [][/\ LexLE(lastAttempt, lastAttempt')
     /\ ci' >= ci
     /\ pc' = "try" => (video' = Get(videos')[vi']
                        /\ cli'.directory = args.conferences[ci'])]_vars

C6_Witness ==
  /\ lastAttempt = <<2, 2>>
  /\ Len(tries) = 2
  /\ Get(videos)[1] # Get(videos)[2]

\* C7 (as stated): for every delay value, after each get_video call exactly
\* one sleep has happened before the next attempt, video or conference.
C7_SleepAlways ==
  lastAttempt # <<0, 0>> => sleeps = (IF InFinally THEN 0 ELSE 1)

\* C7 (amended): for a delay greater than 0, each get_video call is followed
\* by exactly one sleep whatever its outcome; for a delay not above 0 no
\* sleep is made.
C7_SleepWhenPositive ==
  lastAttempt # <<0, 0>>
  => sleeps = (IF InFinally \/ args.delay <= 0 THEN 0 ELSE 1)

C7_Witness ==
  /\ args.delay > 0
  /\ pc = "for_video"
  /\ Len(tries) = 3
  /\ tries[3] \in RaisedOutcomes
  /\ sleeps = 1

\* C8: when the conference list holds a name outside the catalog, the run
\* is rejected by the argument parser: no request is issued, no conference
\* is started, no Client is built.
C8_RejectBeforeNetwork ==
  (\E i \in 1..Len(args.conferences) : args.conferences[i] \notin DOMAIN ConferenceIds)
  => /\ pc \in {"parse_args", "exited"}
     /\ pc = "exited" => exc = "SystemExit: invalid choice"
     /\ reqs = <<>>
     /\ ci = 0
     /\ cli = NoClient
     /\ lastAttempt = <<0, 0>>

C8_Witness ==
  /\ pc = "exited"
  /\ exc = "SystemExit: invalid choice"
  /\ Len(args.conferences) = 2
  /\ args.conferences[1] \in DOMAIN ConferenceIds

\* C9: the file name get_video derives is the title without its "/"
\* characters followed by ".mp4"; it holds no "/" and the destination path
\* is a direct child of the Client's directory.
C9_Filename ==
  (pc = "client" /\ last.op = "get_video" /\ last.outcome # "must_login")
  => /\ last.path.rel = SelectSeq(video.name, NotSlash) \o <<".", "m", "p", "4">>
     /\ \A i \in 1..Len(last.path.rel) : last.path.rel[i] # "/"
     /\ last.path.dir = cli.directory

C9_Witness ==
  /\ pc = "client"
  /\ last.op = "get_video"
  /\ last.outcome = "downloaded"
  /\ video.name = <<"a", "/", "a">>
  /\ last.path = [dir |-> "DEFCON24", rel |-> <<"a", "a", ".", "m", "p", "4">>]

\* C10: at most 3 get_video calls are made for a video; a step of the retry
\* loop never ends the run or sets an exception; after the third raising
\* call the run is back at the for loop over the videos, which goes on to
\* the next video or to the end of the conference.
C10_AtMostThreeAttempts ==
  [][/\ Len(tries') <= 3
     /\ InRetryLoop => (pc' \in {"try", "finally_except", "finally_break", "for_video"}
                        /\ exc' = "")
     /\ (pc = "finally_except" /\ Len(tries) = 3) => pc' = "for_video"
     /\ (pc = "for_video" /\ tries # <<>>)
        => (pc' \in {"try", "conference_done"} /\ exc' = "")]_vars

C10_Witness ==
  /\ pc = "conference_done"
  /\ Len(tries) = 3
  /\ \A i \in 1..3 : tries[i] \in RaisedOutcomes
  /\ exc = ""

\* the destination path of a video in the current Client's directory
DestPath(v) ==
  [dir |-> cli.directory, rel |-> SelectSeq(v.name, NotSlash) \o <<".", "m", "p", "4">>]
Is200(reply) == ~reply.raises /\ reply.status_code = 200

\* C11 (as stated): a get_video call that returns without raising ends the
\* retry loop: the next step leaves the loop with exactly one sleep made for
\* that call, and the for loop then takes the next video, never the same.
C11_ReturnEndsRetriesOneSleep ==
  [][/\ pc = "finally_break" => (pc' = "for_video" /\ tries' = tries /\ sleeps' = 1)
     /\ (pc = "for_video" /\ pc' = "try") => (vi' = vi + 1 /\ tries' = <<>>)]_vars

\* C11 (amended): a get_video call that returns without raising ends the
\* retry loop: the next step leaves the loop, with exactly one sleep made for
\* that call when the delay is greater than 0 and none otherwise, and the
\* for loop then takes the next video, never the same.
C11_ReturnEndsRetries ==
  [][/\ pc = "finally_break"
        => /\ pc' = "for_video"
           /\ tries' = tries
           /\ sleeps' = (IF args.delay > 0 THEN 1 ELSE 0)
     /\ (pc = "for_video" /\ pc' = "try") => (vi' = vi + 1 /\ tries' = <<>>)]_vars

C11_Witness ==
  /\ pc = "for_video"
  /\ tries = <<"resolution_raised", "downloaded">>
  /\ args.delay > 0
  /\ sleeps = 1
  /\ vi = 1
  /\ Len(Get(videos)) = 2

\* C12: a login call sets the Client's cookies, to those of the first
\* redirect response, exactly when the site root answered 200 and the POST
\* has a redirect history; otherwise it raises and leaves the cookies as
\* they were, and without a 200 from the root nothing is posted.
C12_LoginIff ==
  [][last'.op = "login"
     => LET i == last'.env
            ok == Is200(i.root) /\ Len(i.history) # 0
        IN /\ ok <=> last'.outcome = "logged_in"
           /\ ok => (~last'.raised /\ cli'.cookies = Some(i.history[1])
                     /\ cli'.cookies # None)
           /\ ~ok => (last'.raised /\ cli'.cookies = cli.cookies)
           /\ ~Is200(i.root) => reqs' = <<"GET_root">>]_vars

C12_Witness ==
  /\ pc = "client"
  /\ last.op = "login"
  /\ last.outcome = "logged_in"
  /\ last.env.history = <<{"SESS"}, {}>>
  /\ cli.cookies = Some({"SESS"})
  /\ reqs = <<"GET_root", "POST_login">>

\* C13: main makes every playlist, resolution and stream request with a
\* Client that one login call, made for the current conference, gave its
\* cookies; after that login the Client is not changed and not logged in
\* again while the conference is processed.
C13_OneLoginPerConference ==
  [][/\ (\E k \in 1..Len(reqs') : reqs'[k] \in {"GET_playlist", "GET_video", "GET_stream"})
        => (cli.cookies # None /\ logins = 1 /\ cli' = cli
            /\ cli.directory = args.conferences[ci])
     /\ pc' \in {"get_playlist", "for_video", "try", "finally_except",
                 "finally_break", "conference_done"}
        => (cli'.cookies # None /\ logins' = 1)
     /\ pc \in {"get_playlist", "for_video", "try", "finally_except",
                "finally_break", "conference_done"}
        => (cli' = cli /\ logins' = logins)
     /\ logins' <= 1]_vars

C13_Witness ==
  /\ pc = "finally_except"
  /\ reqs = <<"GET_video", "GET_stream">>
  /\ ci = 2
  /\ logins = 1
  /\ Len(tries) = 2

\* C14: a get_video call made while a file is at the video's destination
\* path issues no request, leaves the files as they are and returns; the
\* retry loop ends after it without a second call.
C14_SkipChangesNothing ==
  [][/\ (pc = "try" /\ FilesAt(files, DestPath(video)) # {})
        => /\ reqs' = <<>>
           /\ files' = files
           /\ tries' = Append(tries, "skipped")
           /\ pc' = "finally_break"
     /\ (pc = "finally_break" /\ tries[Len(tries)] = "skipped")
        => (pc' = "for_video" /\ files' = files /\ reqs' = <<>>)]_vars

C14_Witness ==
  /\ pc = "for_video"
  /\ tries = <<"skipped">>
  /\ \E f \in FilesAt(files, DestPath(video)) : f.st = "old"

\* C16: the list get_playlist returns for a 200 reply has one descriptor per
\* entry of the body's data array, in the same order, with id = sess_id and
\* name = sess_data.session_name.
C16_PlaylistMapsData ==
  videos # None
  => LET vs == Get(videos)
         d == body.data
     IN /\ Len(vs) = Len(d)
        /\ \A i \in 1..Len(d) :
             /\ vs[i].id = d[i].sess_id
             /\ vs[i].name = d[i].sess_data.session_name

C16_Witness ==
  /\ pc = "for_video"
  /\ videos # None
  /\ Len(body.data) = 2
  /\ body.data[1].sess_id = 3
  /\ body.data[2].sess_id = 1
  /\ Get(videos)[1] = [id |-> 3, name |-> <<"b">>]

\* C17: a get_video call changes the files only by creating the file at the
\* video's destination path, and only when the resolution reply and the
\* stream reply were both 200; when either is not, the files stay as they
\* are.  No other call creates a file at a video's destination path.
C17_FileOnlyAfter200 ==
  [][/\ last'.op = "get_video"
        => /\ files' # files
              => /\ Is200(last'.env.res)
                 /\ Is200(last'.env.strm)
                 /\ reqs' = <<"GET_video", "GET_stream">>
                 /\ files \subseteq files'
                 /\ files' \ files \subseteq FilesAt(files', last'.path)
           /\ (~Is200(last'.env.res) \/ ~Is200(last'.env.strm)) => files' = files
     /\ last'.op # "get_video"
        => \A f \in files' \ files : f.rel = <<"playlist.json">>]_vars

C17_Witness ==
  /\ pc = "client"
  /\ last.op = "get_video"
  /\ last.outcome = "write_raised"
  /\ Is200(last.env.res)
  /\ Is200(last.env.strm)
  /\ \E f \in FilesAt(files, last.path) : f.st = "partial"

\* C18: in the retry loop of a video, the get_video call that follows one
\* that broke off while the body was written is not skipped: it downloads
\* the video again.
C18_RetryRepairsPartialFile ==
  \A i \in 1..(Len(tries) - 1) :
    tries[i] = "write_raised" => tries[i + 1] # "skipped"

\* C19: in the first conference of a run, a video is skipped at its first
\* try only for a file that was at its destination path before the run,
\* never for one written for another video of the playlist.
C19_NoSkipForOtherVideosFile ==
  (ci = 1 /\ pc = "finally_break" /\ tries = <<"skipped">>)
  => \A f \in FilesAt(files, DestPath(video)) : f.st = "old"

\* C15: when every call and sleep returns, the run ends (main returns or an
\* exception leaves it), and at every point of it the get_video calls made
\* are at most 3 times the videos of the playlists fetched.
C15_TerminatesWithinBudget ==
  /\ <>(pc = "exited")
  /\ [](count.attempts <= 3 * count.fetched)

C15_Witness ==
  /\ pc = "exited"
  /\ exc = ""
  /\ ci = 2
  /\ count.fetched = 4
  /\ count.attempts = 12

====
